---- MODULE Spec2Model ----
(***************************************************************************)
(* Appointment tracker (src/app.py): the date helpers, the wait-time       *)
(* calculation, the name mask, the sqlite-backed record store and the      *)
(* Streamlit page run with its admin session state.                        *)
(*                                                                         *)
(* Text is a sequence of one-character strings, so that strip(), slicing,  *)
(* int() and the ISO date format are computed character by character.      *)
(* An optional value is <<>> (None) or <<v>>; a calendar date is <<y,m,d>>.*)
(***************************************************************************)
EXTENDS Integers, Sequences, FiniteSets, TLC

VARIABLES
    wStart, wEnd, wOut,        \* calculate_wait_time: its two arguments and its result
    mName, mOut,               \* mask_name: its argument and its result
    store, nextId,             \* the appointments table, in rowid order; the next fresh id
    df,                        \* what the latest direct call of a store operation returned
    ties,                      \* how this platform's sort orders rows with equal keys
    pc, event,                 \* per session: position in the page run, the widget event being handled
    admin_authenticated,       \* st.session_state.admin_authenticated, per session
    admin_login_open,          \* st.session_state.admin_login_open, per session
    panel, page,               \* per session: rendered appointment_options; what the run rendered
    selected_id,               \* per session: the id the run passes to delete_row
    lastAuth,                  \* per session: the latest Login / Cancel / Logout click handled
    ops                        \* how many add-form inserts and deletes have happened

waitVars == <<wStart, wEnd, wOut>>
maskVars == <<mName, mOut>>
dbVars   == <<store, nextId>>
sessVars == <<pc, event, admin_authenticated, admin_login_open, panel, page,
              selected_id, lastAuth, ops>>
vars     == <<wStart, wEnd, wOut, mName, mOut, store, nextId, df, ties, pc, event,
              admin_authenticated, admin_login_open, panel, page, selected_id,
              lastAuth, ops>>

-----------------------------------------------------------------------------
(* Bounds of the model *)

FirstYear == 2023
MaxYears == 2
MaxNameLen == 6
MaxInserts == 2
MaxDeletes == 2
MaxSel == 2

-----------------------------------------------------------------------------
(* Optional values and text *)

None == <<>>
Some(x) == <<x>>

\* SQL NULL / Python None where a text is expected
NullText == <<"<NULL>">>

DigitChars == <<"0", "1", "2", "3", "4", "5", "6", "7", "8", "9">>
DigitSet == {DigitChars[i] : i \in 1..10}
DigitMap == [c \in DigitSet |-> (CHOOSE i \in 1..10 : DigitChars[i] = c) - 1]
IsDigit(c) == c \in DigitSet
DigitVal(c) == DigitMap[c]
IsSpace(c) == c = " "

Min(a, b) == IF a <= b THEN a ELSE b

\* the sequence of Op(x) for the elements x of s, in order
RECURSIVE SeqMap(_, _)
SeqMap(Op(_), s) == IF s = <<>> THEN <<>> ELSE <<Op(Head(s))>> \o SeqMap(Op, Tail(s))

RECURSIVE lstrip(_)
lstrip(s) == IF s # <<>> /\ IsSpace(Head(s)) THEN lstrip(Tail(s)) ELSE s

RECURSIVE rstrip(_)
rstrip(s) ==
    IF s # <<>> /\ IsSpace(s[Len(s)]) THEN rstrip(SubSeq(s, 1, Len(s) - 1)) ELSE s

\* str.strip()
strip(s) == rstrip(lstrip(s))

\* Python truthiness of an optional text: None and "" are falsy
Truthy(s) == s # NullText /\ s # <<>>

\* (x or "")
OrEmpty(s) == IF Truthy(s) THEN s ELSE <<>>

-----------------------------------------------------------------------------
(* Calendar arithmetic of datetime.date and dateutil.relativedelta *)

IsLeap(y) == (y % 4 = 0 /\ y % 100 # 0) \/ y % 400 = 0

DaysInMonth(y, m) ==
    IF m = 2 THEN (IF IsLeap(y) THEN 29 ELSE 28)
    ELSE IF m \in {4, 6, 9, 11} THEN 30 ELSE 31

\* days of the year before the first of month m
DaysBeforeMonthTable == <<0, 31, 59, 90, 120, 151, 181, 212, 243, 273, 304, 334>>

DaysBeforeMonth(y, m) ==
    DaysBeforeMonthTable[m] + (IF m > 2 /\ IsLeap(y) THEN 1 ELSE 0)

\* date.toordinal()
ToOrdinal(d) ==
    LET y == d[1] - 1
    IN  y * 365 + (y \div 4) - (y \div 100) + (y \div 400)
        + DaysBeforeMonth(d[1], d[2]) + d[3]

\* (a - b).days
DaysBetween(a, b) == ToOrdinal(a) - ToOrdinal(b)

\* a < b on dates
DateLess(a, b) == ToOrdinal(a) < ToOrdinal(b)

\* date + relativedelta(months=k): the day is clipped to the target month's length
AddMonths(d, k) ==
    LET total == d[1] * 12 + (d[2] - 1) + k
        y == total \div 12
        m == (total % 12) + 1
    IN  <<y, m, Min(DaysInMonth(y, m), d[3])>>

\* relativedelta(dt1, dt2) for dt1 > dt2: start from the year/month difference and step
\* back while dt2 + months overshoots dt1
RECURSIVE RdAdjust(_, _, _)
RdAdjust(dt1, dt2, months) ==
    IF DateLess(dt1, AddMonths(dt2, months))
    THEN RdAdjust(dt1, dt2, months - 1)
    ELSE months

RdTotalMonths(dt1, dt2) ==
    RdAdjust(dt1, dt2, (dt1[1] - dt2[1]) * 12 + (dt1[2] - dt2[2]))

\* rd.years and rd.months as relativedelta normalises them (months >= 0 here)
RdYears(dt1, dt2) == RdTotalMonths(dt1, dt2) \div 12
RdMonths(dt1, dt2) == RdTotalMonths(dt1, dt2) % 12

-----------------------------------------------------------------------------
(* calculate_wait_time *)

calculate_wait_time_clampless(start_date, end_date) ==
    IF start_date = None \/ end_date = None THEN <<None, None>>
    ELSE LET total_months == RdYears(end_date, start_date) * 12
                             + RdMonths(end_date, start_date)
         IN  <<Some(total_months),
               Some(DaysBetween(end_date, AddMonths(start_date, total_months)))>>

calculate_wait_time_naive(start_date, end_date) ==
    IF start_date = None \/ end_date = None THEN <<None, None>>
    ELSE IF ~DateLess(start_date, end_date) THEN <<Some(0), Some(0)>>
    ELSE LET total_months == (end_date[1] - start_date[1]) * 12
                             + (end_date[2] - start_date[2])
         IN  <<Some(total_months),
               Some(DaysBetween(end_date, AddMonths(start_date, total_months)))>>

calculate_wait_time(start_date, end_date) ==
    IF start_date = None \/ end_date = None THEN <<None, None>>
    ELSE IF ~DateLess(start_date, end_date) THEN <<Some(0), Some(0)>>
    ELSE LET total_months == RdYears(end_date, start_date) * 12
                             + RdMonths(end_date, start_date)
             temp_date == AddMonths(start_date, total_months)
             remaining_days == DaysBetween(end_date, temp_date)
         IN  IF remaining_days < 0
             THEN <<Some(total_months - 1),
                    Some(DaysBetween(end_date, AddMonths(start_date, total_months - 1)))>>
             ELSE <<Some(total_months), Some(remaining_days)>>

-----------------------------------------------------------------------------
(* to_iso / parse_iso *)

Digits2(k) == <<DigitChars[(k \div 10) + 1], DigitChars[(k % 10) + 1]>>
Digits4(k) == Digits2(k \div 100) \o Digits2(k % 100)

\* date.isoformat(): YYYY-MM-DD
IsoFormat(d) == Digits4(d[1]) \o <<"-">> \o Digits2(d[2]) \o <<"-">> \o Digits2(d[3])

\* to_iso(d) for a date object or an optional text
to_iso(d) == IF d = None THEN <<>> ELSE IsoFormat(d)

Num2(s, i) == DigitVal(s[i]) * 10 + DigitVal(s[i + 1])

\* datetime.fromisoformat(s).date() succeeds on a date-only text: ten characters
\* YYYY-MM-DD naming a day that exists (texts carrying a time part are outside the
\* texts this model stores)
FromIsoOk(s) ==
    /\ Len(s) = 10
    /\ \A i \in {1, 2, 3, 4, 6, 7, 9, 10} : IsDigit(s[i])
    /\ s[5] = "-" /\ s[8] = "-"
    /\ LET y == Num2(s, 1) * 100 + Num2(s, 3)
           m == Num2(s, 6)
           d == Num2(s, 9)
       IN  y >= 1 /\ m \in 1..12 /\ d \in 1..DaysInMonth(y, m)

FromIso(s) == <<Num2(s, 1) * 100 + Num2(s, 3), Num2(s, 6), Num2(s, 9)>>

parse_iso_lenient(s) ==
    IF ~Truthy(s) THEN None
    ELSE IF Len(s) = 10 /\ \A i \in {1, 2, 3, 4, 6, 7, 9, 10} : IsDigit(s[i])
         THEN FromIso(s)
         ELSE <<FirstYear, 1, 1>>

parse_iso(s) ==
    IF ~Truthy(s) THEN None
    ELSE IF FromIsoOk(s) THEN FromIso(s)
    ELSE None

-----------------------------------------------------------------------------
(* mask_name *)

\* the one-character text U+2014 (em dash), written here in ASCII
Dash == <<"{em-dash}">>

mask_name_unstripped(name) ==
    IF ~Truthy(name) THEN Dash
    ELSE IF Len(name) <= 2 THEN <<name[1], "*">>
    ELSE IF Len(name) <= 4 THEN <<name[1], "*", "*", name[Len(name)]>>
    ELSE SubSeq(name, 1, 2) \o <<"*", "*", "*">>
         \o SubSeq(name, Len(name) - 1, Len(name))

mask_name(name) ==
    IF ~Truthy(name) \/ strip(name) = <<>> THEN Dash
    ELSE LET name_str == strip(name)
             k == Len(name_str)
         IN  IF k <= 2 THEN <<name_str[1], "*">>
             ELSE IF k <= 4 THEN <<name_str[1], "*", "*", name_str[k]>>
             ELSE SubSeq(name_str, 1, 2) \o <<"*", "*", "*">>
                  \o SubSeq(name_str, k - 1, k)

-----------------------------------------------------------------------------
(* load_df.ref_to_int *)

RECURSIVE DigitsValue(_)
DigitsValue(s) ==
    IF s = <<>> THEN 0
    ELSE DigitsValue(SubSeq(s, 1, Len(s) - 1)) * 10 + DigitVal(s[Len(s)])

AllDigits(s) == s # <<>> /\ \A i \in 1..Len(s) : IsDigit(s[i])

\* int(text) succeeds: surrounding whitespace, an optional sign, then decimal digits
IntOk(s) ==
    LET t == strip(s)
    IN  IF t # <<>> /\ Head(t) \in {"+", "-"} THEN AllDigits(Tail(t)) ELSE AllDigits(t)

IntOf(s) ==
    LET t == strip(s)
    IN  IF Head(t) = "-" THEN 0 - DigitsValue(Tail(t))
        ELSE IF Head(t) = "+" THEN DigitsValue(Tail(t))
        ELSE DigitsValue(t)

ref_to_int_abs(ref) ==
    IF Truthy(ref) /\ strip(ref) # <<>> /\ IntOk(ref)
    THEN (IF IntOf(ref) < 0 THEN 0 - IntOf(ref) ELSE IntOf(ref))
    ELSE 0

ref_to_int(ref) ==
    IF Truthy(ref) /\ strip(ref) # <<>>
    THEN (IF IntOk(ref) THEN IntOf(ref) ELSE 0)
    ELSE 0

-----------------------------------------------------------------------------
(* The appointments table: a sequence of rows in rowid order.  A row holds the *)
(* columns id, name, reference_no, apply_date, received_date, interview_date  *)
(* as stored text (created_at, a timestamp no operation reads back, is left   *)
(* out).  uuid4() is the next value of the counter nextId.                     *)

Ids(rows) == {rows[i].id : i \in 1..Len(rows)}

\* the seed list of seed_if_empty
seed == <<
    [name |-> <<"S", "a", "e", "e", "d", " ", "A", "h", "m", "a", "d">>, reference_no |-> <<"1", "9", "9", "9">>,
     apply_date |-> <<"2", "0", "2", "3", "-", "1", "1", "-", "1", "3">>,
     received_date |-> <<"2", "0", "2", "5", "-", "1", "2", "-", "1", "6">>,
     interview_date |-> <<"2", "0", "2", "6", "-", "0", "2", "-", "1", "2">>],
    [name |-> <<>>, reference_no |-> <<"1", "9", "9", "6">>,
     apply_date |-> <<"2", "0", "2", "3", "-", "1", "1", "-", "1", "0">>,
     received_date |-> <<"2", "0", "2", "5", "-", "1", "2", "-", "1", "6">>,
     interview_date |-> <<"2", "0", "2", "6", "-", "0", "2", "-", "0", "9">>],
    [name |-> <<>>, reference_no |-> <<"1", "9", "8", "6">>,
     apply_date |-> <<>>,
     received_date |-> <<>>,
     interview_date |-> <<"2", "0", "2", "6", "-", "0", "2", "-", "0", "4">>],
    [name |-> <<"H", "o", "n", "e", "y", " ", "B", "a", "d", "a", "l">>, reference_no |-> <<>>,
     apply_date |-> <<"2", "0", "2", "3", "-", "1", "0", "-", "0", "3">>,
     received_date |-> <<"2", "0", "2", "5", "-", "1", "1", "-", "1", "7">>,
     interview_date |-> <<"2", "0", "2", "5", "-", "1", "2", "-", "1", "6">>],
    [name |-> <<"O", "s", "a", "m", "a", " ", "A", "d", "i", "l">>, reference_no |-> <<>>,
     apply_date |-> <<"2", "0", "2", "3", "-", "1", "0", "-", "0", "4">>,
     received_date |-> <<"2", "0", "2", "5", "-", "1", "1", "-", "1", "6">>,
     interview_date |-> <<"2", "0", "2", "5", "-", "1", "2", "-", "1", "6">>],
    [name |-> <<>>, reference_no |-> <<"1", "9", "5", "0">>,
     apply_date |-> <<"2", "0", "2", "3", "-", "0", "9", "-", "3", "0">>,
     received_date |-> <<>>,
     interview_date |-> <<"2", "0", "2", "5", "-", "1", "2", "-", "1", "1">>],
    [name |-> <<>>, reference_no |-> <<"1", "9", "9", "3">>,
     apply_date |-> <<>>,
     received_date |-> <<>>,
     interview_date |-> <<"2", "0", "2", "6", "-", "0", "2", "-", "0", "6">>],
    [name |-> <<>>, reference_no |-> <<"1", "9", "9", "1">>,
     apply_date |-> <<"2", "0", "2", "3", "-", "1", "1", "-", "0", "8">>,
     received_date |-> <<"2", "0", "2", "5", "-", "1", "2", "-", "1", "1">>,
     interview_date |-> <<>>],
    [name |-> <<>>, reference_no |-> <<"1", "8", "8", "5">>,
     apply_date |-> <<>>,
     received_date |-> <<>>,
     interview_date |-> <<"2", "0", "2", "5", "-", "0", "8", "-", "1", "3">>],
    [name |-> <<>>, reference_no |-> <<"1", "9", "7", "9">>,
     apply_date |-> <<"2", "0", "2", "3", "-", "1", "0", "-", "3", "1">>,
     received_date |-> <<>>,
     interview_date |-> <<"2", "0", "2", "6", "-", "0", "1", "-", "2", "8">>],
    [name |-> <<>>, reference_no |-> <<"1", "9", "8", "0">>,
     apply_date |-> <<"2", "0", "2", "3", "-", "1", "1", "-", "0", "1">>,
     received_date |-> <<>>,
     interview_date |-> <<>>],
    [name |-> <<>>, reference_no |-> <<"1", "9", "7", "5">>,
     apply_date |-> <<"2", "0", "2", "3", "-", "1", "0", "-", "2", "3">>,
     received_date |-> <<"2", "0", "2", "5", "-", "1", "2", "-", "1", "1">>,
     interview_date |-> <<"2", "0", "2", "6", "-", "0", "1", "-", "2", "0">>],
    [name |-> <<>>, reference_no |-> <<"1", "9", "7", "1">>,
     apply_date |-> <<"2", "0", "2", "3", "-", "1", "0", "-", "1", "3">>,
     received_date |-> <<"2", "0", "2", "5", "-", "1", "2", "-", "1", "1">>,
     interview_date |-> <<"2", "0", "2", "6", "-", "0", "1", "-", "1", "3">>],
    [name |-> <<>>, reference_no |-> <<"1", "9", "5", "5">>,
     apply_date |-> <<"2", "0", "2", "3", "-", "0", "9", "-", "2", "5">>,
     received_date |-> <<>>,
     interview_date |-> <<>>],
    [name |-> <<>>, reference_no |-> <<"1", "9", "4", "0">>,
     apply_date |-> <<"2", "0", "2", "3", "-", "0", "9", "-", "1", "0">>,
     received_date |-> <<>>,
     interview_date |-> <<>>],
    [name |-> <<>>, reference_no |-> <<"1", "9", "3", "5">>,
     apply_date |-> <<"2", "0", "2", "3", "-", "0", "9", "-", "0", "5">>,
     received_date |-> <<>>,
     interview_date |-> <<>>]
>>

SeedCount == Len(seed)

\* the rows seed_if_empty inserts, with ids first_id, first_id + 1, ...
seed_rows(first_id) ==
    [i \in 1..SeedCount |->
        [id |-> first_id + i - 1, name |-> seed[i].name,
         reference_no |-> seed[i].reference_no,
         apply_date |-> seed[i].apply_date,
         received_date |-> seed[i].received_date,
         interview_date |-> seed[i].interview_date]]

\* seed_if_empty, cnt being the row count it read: the table after it
seed_if_empty_always(rows, cnt, first_id) == rows \o seed_rows(first_id)

seed_if_empty_never(rows, cnt, first_id) == rows

seed_if_empty(rows, cnt, first_id) ==
    IF cnt > 0 THEN rows ELSE rows \o seed_rows(first_id)

\* insert_row: the table after it, new_id being the uuid4() it draws
insert_row_untrimmed(rows, new_id, name, ref, apply_d, recv_d, int_d) ==
    Append(rows,
        [id |-> new_id, name |-> OrEmpty(name), reference_no |-> OrEmpty(ref),
         apply_date |-> to_iso(apply_d), received_date |-> to_iso(recv_d),
         interview_date |-> to_iso(int_d)])

insert_row(rows, new_id, name, ref, apply_d, recv_d, int_d) ==
    Append(rows,
        [id |-> new_id,
         name |-> strip(OrEmpty(name)),
         reference_no |-> strip(OrEmpty(ref)),
         apply_date |-> IF apply_d # None THEN to_iso(apply_d) ELSE <<>>,
         received_date |-> IF recv_d # None THEN to_iso(recv_d) ELSE <<>>,
         interview_date |-> IF int_d # None THEN to_iso(int_d) ELSE <<>>])

\* delete_row: DELETE FROM appointments WHERE id = ?
delete_row_first(rows, row_id) == IF rows = <<>> THEN rows ELSE Tail(rows)

delete_row(rows, row_id) == SelectSeq(rows, LAMBDA r : r.id # row_id)

-----------------------------------------------------------------------------
(* load_df *)

\* one row of the frame: dates parsed, wait_months / wait_days derived
FrameRow(r) ==
    LET a == parse_iso(r.apply_date)
        i == parse_iso(r.interview_date)
        w == calculate_wait_time(a, i)
    IN  [id |-> r.id, name |-> r.name, reference_no |-> r.reference_no,
         apply_date |-> a, received_date |-> parse_iso(r.received_date),
         interview_date |-> i, wait_months |-> w[1], wait_days |-> w[2]]

\* sort_values("_sort_ref", ascending=False) uses the default, unstable sort: rows
\* with equal keys keep their relative order or come out reversed, as the platform's
\* sort has it
TieOrders == {"kept", "reversed"}

InsertDesc(x, sorted, tie_order) ==
    LET before == {j \in 1..Len(sorted) :
                      \/ sorted[j].sort_ref > x.sort_ref
                      \/ tie_order = "kept" /\ sorted[j].sort_ref = x.sort_ref}
        k == Cardinality(before)
    IN  SubSeq(sorted, 1, k) \o <<x>> \o SubSeq(sorted, k + 1, Len(sorted))

RECURSIVE SortDesc(_, _)
SortDesc(keyed, tie_order) ==
    IF keyed = <<>> THEN <<>>
    ELSE InsertDesc(keyed[Len(keyed)],
                    SortDesc(SubSeq(keyed, 1, Len(keyed) - 1), tie_order), tie_order)

\* df["_sort_ref"] = df["reference_no"].apply(ref_to_int): each row paired with its key
WithSortRef(rows) ==
    SeqMap(LAMBDA r : [row |-> FrameRow(r), sort_ref |-> ref_to_int(r.reference_no)], rows)

\* df.drop(columns=["_sort_ref"])
DropSortRef(keyed) == SeqMap(LAMBDA k : k.row, keyed)

load_df_unsorted(rows, tie_order) == DropSortRef(WithSortRef(rows))

load_df(rows, tie_order) == DropSortRef(SortDesc(WithSortRef(rows), tie_order))

-----------------------------------------------------------------------------
(* Admin panel: appointment_options and the id looked up for the selection *)

NoReference == <<"N", "o", " ", "R", "e", "f", "e", "r", "e", "n", "c", "e">>

OptionLabel(row) ==
    LET ref == IF row.reference_no # NullText /\ strip(row.reference_no) # <<>>
               THEN row.reference_no ELSE NoReference
    IN  ref \o <<" ", "-", " ">> \o mask_name(row.name)

appointment_options(frame) == SeqMap(LAMBDA row : <<row.id, OptionLabel(row)>>, frame)

Labels(options) == SeqMap(LAMBDA opt : opt[2], options)

\* the loop over appointment_options: the id of the first entry showing the label
LookupId(options, selected_option) ==
    LET hits == {j \in 1..Len(options) : options[j][2] = selected_option}
    IN  IF hits = {} THEN None
        ELSE Some(options[CHOOSE j \in hits : \A h \in hits : j <= h][1])

-----------------------------------------------------------------------------
(* Sessions: the values the session variables hold before any page run *)

Sessions == {"s1", "s2"}

NoEvent == [kind |-> "none", pw |-> "", name |-> <<>>, ref |-> <<>>,
            dates |-> <<None, None, None>>, label |-> <<>>, target |-> None]

NoPage == [csv |-> "none", stats |-> FALSE, table |-> FALSE, error |-> "none"]

InitSess ==
    /\ pc = [s \in Sessions |-> "idle"]
    /\ event = [s \in Sessions |-> NoEvent]
    /\ admin_authenticated = [s \in Sessions |-> FALSE]
    /\ admin_login_open = [s \in Sessions |-> FALSE]
    /\ panel = [s \in Sessions |-> <<>>]
    /\ page = [s \in Sessions |-> NoPage]
    /\ selected_id = [s \in Sessions |-> None]
    /\ lastAuth = [s \in Sessions |-> [kind |-> "none", pw |-> ""]]
    /\ ops = [ins |-> 0, del |-> 0]

\* a result not computed yet
Pending == <<>>

-----------------------------------------------------------------------------
(* SpecWait: calculate_wait_time applied to every pair of optional dates *)

Years == FirstYear..(FirstYear + MaxYears - 1)

EndDates ==
    {<<y, m, d>> : y \in Years, m \in 1..12, d \in 1..31} \cap
    {x \in (Years \X (1..12) \X (1..31)) : x[3] <= DaysInMonth(x[1], x[2])}

StartDates == {x \in EndDates : x[3] \in {1, 15, 28, 29, 30, 31}}

InitWait ==
    /\ wStart \in StartDates \cup {None}
    /\ wEnd \in EndDates \cup {None}
    /\ wOut = Pending
    /\ mName = <<>> /\ mOut = Pending
    /\ store = <<>> /\ nextId = 1 /\ df = None /\ ties = "kept"
    /\ InitSess

CalcWait ==
    /\ wOut = Pending
    /\ wOut' = calculate_wait_time(wStart, wEnd)
    /\ UNCHANGED <<wStart, wEnd, maskVars, dbVars, df, ties, sessVars>>

NextWait == CalcWait

SpecWait == InitWait /\ [][NextWait]_vars

-----------------------------------------------------------------------------
(* SpecMask: mask_name applied to every short text, and to None *)

NameChars == {"a", "b", "c", " "}

Names == UNION {[1..k -> NameChars] : k \in 0..MaxNameLen}

InitMask ==
    /\ mName \in Names \cup {NullText}
    /\ mOut = Pending
    /\ wStart = None /\ wEnd = None /\ wOut = Pending
    /\ store = <<>> /\ nextId = 1 /\ df = None /\ ties = "kept"
    /\ InitSess

CalcMask ==
    /\ mOut = Pending
    /\ mOut' = mask_name(mName)
    /\ UNCHANGED <<mName, waitVars, dbVars, df, ties, sessVars>>

NextMask == CalcMask

SpecMask == InitMask /\ [][NextMask]_vars

-----------------------------------------------------------------------------
(* SpecStore: the store operations called one after another on one          *)
(* connection.  get_conn keeps an existing table, whose TEXT columns accept *)
(* any text or NULL: the table starts empty or holding the rows of legacy.  *)
(* df is what the latest call returned: Some(frame) for load_df, else None. *)

legacy == <<
    [id |-> 1, name |-> <<"Z", "e", "d">>, reference_no |-> <<" ">>,
     apply_date |-> <<>>,
     received_date |-> <<>>,
     interview_date |-> <<"2", "0", "2", "6", "-", "0", "2", "-", "0", "4">>],
    [id |-> 2, name |-> NullText, reference_no |-> NullText,
     apply_date |-> NullText,
     received_date |-> NullText,
     interview_date |-> NullText],
    [id |-> 3, name |-> <<"A", "l">>, reference_no |-> <<"a", "b", "c">>,
     apply_date |-> <<"2", "0", "2", "3", "-", "0", "2", "-", "3", "0">>,
     received_date |-> <<>>,
     interview_date |-> <<"2", "0", "2", "4", "-", "0", "1", "-", "1", "5">>],
    [id |-> 4, name |-> <<>>, reference_no |-> <<"-", "3">>,
     apply_date |-> <<"2", "0", "2", "3", "-", "1", "0", "-", "0", "3">>,
     received_date |-> <<>>,
     interview_date |-> <<"1", "3", "/", "0", "1", "/", "2", "0", "2", "6">>],
    [id |-> 5, name |-> <<>>, reference_no |-> <<"0">>,
     apply_date |-> <<"2", "0", "2", "4", "-", "0", "1", "-", "3", "1">>,
     received_date |-> <<>>,
     interview_date |-> <<"2", "0", "2", "4", "-", "0", "2", "-", "2", "9">>],
    [id |-> 6, name |-> <<>>, reference_no |-> <<"1", "2">>,
     apply_date |-> <<"2", "0", "2", "4", "-", "0", "3", "-", "0", "1">>,
     received_date |-> <<"2", "0", "2", "4", "-", "0", "3", "-", "0", "1">>,
     interview_date |-> <<"2", "0", "2", "4", "-", "0", "3", "-", "0", "1">>]
>>

\* the arguments insert_row is called with
ArgNames == {<<" ", "A", "l", " ">>}
ArgRefs == {<<" ", "7">>, <<"-", "3", " ">>}
ArgDates == {<<None, None, None>>, <<<<2024, 1, 31>>, <<2024, 1, 31>>, <<2024, 2, 29>>>>}

InitStore ==
    /\ store \in {<<>>, legacy}
    /\ nextId = Len(store) + 1
    /\ df = None
    /\ ties \in TieOrders
    /\ wStart = None /\ wEnd = None /\ wOut = Pending
    /\ mName = <<>> /\ mOut = Pending
    /\ InitSess

StoreInsert ==
    /\ ops.ins < MaxInserts
    /\ \E name \in ArgNames, ref \in ArgRefs, d \in ArgDates :
          store' = insert_row(store, nextId, name, ref, d[1], d[2], d[3])
    /\ nextId' = nextId + 1
    /\ ops' = [ops EXCEPT !.ins = @ + 1]
    /\ df' = None
    /\ UNCHANGED <<waitVars, maskVars, ties, pc, event, admin_authenticated,
                   admin_login_open, panel, page, selected_id, lastAuth>>

\* the ids delete_row is called with: the first two rows' and the last row's, the
\* oldest id (possibly deleted by now) and an id never used
DeleteArgs ==
    {store[j].id : j \in {j \in 1..Len(store) : j <= 2 \/ j = Len(store)}} \cup {1, nextId}

StoreDelete ==
    /\ ops.del < MaxDeletes
    /\ \E row_id \in DeleteArgs : store' = delete_row(store, row_id)
    /\ ops' = [ops EXCEPT !.del = @ + 1]
    /\ df' = None
    /\ UNCHANGED <<nextId, waitVars, maskVars, ties, pc, event, admin_authenticated,
                   admin_login_open, panel, page, selected_id, lastAuth>>

StoreSeed ==
    /\ store' = seed_if_empty(store, Len(store), nextId)
    /\ nextId' = nextId + (Len(store') - Len(store))
    /\ df' = None
    /\ UNCHANGED <<waitVars, maskVars, ties, sessVars>>

StoreLoad ==
    /\ df' = Some(load_df(store, ties))
    /\ UNCHANGED <<dbVars, waitVars, maskVars, ties, sessVars>>

NextStore == StoreInsert \/ StoreDelete \/ StoreSeed \/ StoreLoad

SpecStore == InitStore /\ [][NextStore]_vars

-----------------------------------------------------------------------------
(* Spec: the Streamlit page.  Every widget event of a session reruns the    *)
(* script from the top: seed_if_empty, the admin and add-form handlers,     *)
(* load_df, the backup, the table and the admin panel.  st.rerun() abandons *)
(* the pass and starts the next one without an event.  Sessions share the   *)
(* table and interleave between their database statements.                  *)
(*   pc: "idle" (page shown, waiting for a click), "start" (script begins), *)
(*       "seed" (the row count read was 0), "body" (handlers), "load"      *)
(*       (load_df and rendering), "delete" (about to call delete_row).      *)

ADMIN_PASSWORD == "NoEm1234"

Passwords == {ADMIN_PASSWORD, "guess"}

\* what the add form is submitted with
FormNames == {<<>>, <<" ", "A", "l", "i", " ">>}
FormRefs == {<<>>, <<" ">>, <<" ", "7">>}
FormDates == {<<<<2024, 1, 31>>, <<2024, 1, 31>>, <<2024, 2, 29>>>>}

\* a table earlier sessions left behind: the third and fourth seed rows (reference
\* 1986, and "Honey Badal" without a reference), the other fourteen deleted
remnant == SubSeq(seed_rows(1), 3, 4)

Init ==
    /\ \/ store = <<>> /\ nextId = 1
       \/ store = remnant /\ nextId = SeedCount + 1
    /\ df = None
    /\ ties \in TieOrders
    /\ wStart = None /\ wEnd = None /\ wOut = Pending
    /\ mName = <<>> /\ mOut = Pending
    /\ InitSess

appVars == <<waitVars, maskVars, df, ties>>

\* the script has run once in session s, so its widgets are on the page
Shown(s) == page[s].csv # "none"

\* the events the widgets on session s's page can raise
Events(s) ==
    {NoEvent}
    \cup (IF Shown(s) /\ ~admin_authenticated[s]
          THEN {[NoEvent EXCEPT !.kind = "toggle"]} ELSE {})
    \cup (IF Shown(s) /\ admin_authenticated[s]
          THEN {[NoEvent EXCEPT !.kind = "logout"]} ELSE {})
    \cup (IF Shown(s) /\ admin_login_open[s] /\ ~admin_authenticated[s]
          THEN {[NoEvent EXCEPT !.kind = "cancel"]}
               \cup {[NoEvent EXCEPT !.kind = "login", !.pw = w] : w \in Passwords}
          ELSE {})
    \cup (IF Shown(s) /\ ops.ins < MaxInserts
          THEN {[NoEvent EXCEPT !.kind = "submit", !.name = a[1], !.ref = a[2],
                                !.dates = a[3]] :
                   a \in FormNames \X FormRefs \X FormDates}
          ELSE {})
    \cup (IF ops.del < MaxDeletes
          THEN {[NoEvent EXCEPT !.kind = "delete", !.label = panel[s][j][2],
                                !.target = Some(panel[s][j][1])] :
                   j \in {j \in 1..Len(panel[s]) : j <= MaxSel}}
          ELSE {})

\* a click (or any other widget change) in an idle session queues a rerun with it
Click(s) ==
    /\ pc[s] = "idle"
    /\ \E e \in Events(s) : event' = [event EXCEPT ![s] = e]
    /\ pc' = [pc EXCEPT ![s] = "start"]
    /\ UNCHANGED <<appVars, dbVars, admin_authenticated, admin_login_open, panel,
                   page, selected_id, lastAuth, ops>>

\* the clicks of an admin who only logs in and deletes
AdminEvents(s) ==
    {e \in Events(s) :
        \/ e.kind \in {"none", "toggle", "delete"}
        \/ e.kind = "login" /\ e.pw = ADMIN_PASSWORD}

AdminClick(s) ==
    /\ pc[s] = "idle"
    /\ \E e \in AdminEvents(s) : event' = [event EXCEPT ![s] = e]
    /\ pc' = [pc EXCEPT ![s] = "start"]
    /\ UNCHANGED <<appVars, dbVars, admin_authenticated, admin_login_open, panel,
                   page, selected_id, lastAuth, ops>>

\* seed_if_empty, first half: the row count and the early return
SeedCountStep(s) ==
    /\ pc[s] = "start"
    /\ pc' = [pc EXCEPT ![s] = IF Len(store) > 0 THEN "body" ELSE "seed"]
    /\ UNCHANGED <<appVars, dbVars, event, admin_authenticated, admin_login_open,
                   panel, page, selected_id, lastAuth, ops>>

\* seed_if_empty, second half: the sixteen INSERTs and the commit
SeedInsertStep(s) ==
    /\ pc[s] = "seed"
    /\ store' = seed_if_empty(store, 0, nextId)
    /\ nextId' = nextId + SeedCount
    /\ pc' = [pc EXCEPT ![s] = "body"]
    /\ UNCHANGED <<appVars, event, admin_authenticated, admin_login_open,
                   panel, page, selected_id, lastAuth, ops>>

\* st.rerun(): the pass ends here and the script starts over, no widget triggered
Rerun(s) ==
    /\ event' = [event EXCEPT ![s] = NoEvent]
    /\ pc' = [pc EXCEPT ![s] = "start"]

\* the pass goes on to load_df; msg is what st.error showed, if anything
GoOn(s, msg) ==
    /\ page' = [page EXCEPT ![s] = [NoPage EXCEPT !.error = msg]]
    /\ pc' = [pc EXCEPT ![s] = "load"]
    /\ UNCHANGED event

\* the admin toggle button, shown while not authenticated
AdminToggle(s) ==
    /\ pc[s] = "body" /\ event[s].kind = "toggle"
    /\ ~admin_authenticated[s]
    /\ admin_login_open' = [admin_login_open EXCEPT ![s] = ~admin_login_open[s]]
    /\ Rerun(s)
    /\ UNCHANGED <<appVars, dbVars, admin_authenticated, panel, page, selected_id,
                   lastAuth, ops>>

\* the logout button, shown while authenticated
Logout(s) ==
    /\ pc[s] = "body" /\ event[s].kind = "logout"
    /\ admin_authenticated[s]
    /\ admin_authenticated' = [admin_authenticated EXCEPT ![s] = FALSE]
    /\ admin_login_open' = [admin_login_open EXCEPT ![s] = FALSE]
    /\ lastAuth' = [lastAuth EXCEPT ![s] = [kind |-> "logout", pw |-> ""]]
    /\ Rerun(s)
    /\ UNCHANGED <<appVars, dbVars, panel, page, selected_id, ops>>

\* admin_pass == ADMIN_PASSWORD
password_any(admin_pass) == TRUE

password_ok(admin_pass) == admin_pass = ADMIN_PASSWORD

\* the Login button of the login form
Login(s) ==
    /\ pc[s] = "body" /\ event[s].kind = "login"
    /\ admin_login_open[s] /\ ~admin_authenticated[s]
    /\ lastAuth' = [lastAuth EXCEPT ![s] = [kind |-> "login", pw |-> event[s].pw]]
    /\ IF password_ok(event[s].pw)
       THEN /\ admin_authenticated' = [admin_authenticated EXCEPT ![s] = TRUE]
            /\ admin_login_open' = [admin_login_open EXCEPT ![s] = FALSE]
            /\ Rerun(s)
            /\ UNCHANGED page
       ELSE /\ GoOn(s, "Incorrect password")
            /\ UNCHANGED <<admin_authenticated, admin_login_open>>
    /\ UNCHANGED <<appVars, dbVars, panel, selected_id, ops>>

\* the Cancel button of the login form
Cancel(s) ==
    /\ pc[s] = "body" /\ event[s].kind = "cancel"
    /\ admin_login_open[s] /\ ~admin_authenticated[s]
    /\ admin_login_open' = [admin_login_open EXCEPT ![s] = FALSE]
    /\ lastAuth' = [lastAuth EXCEPT ![s] = [kind |-> "cancel", pw |-> ""]]
    /\ Rerun(s)
    /\ UNCHANGED <<appVars, dbVars, admin_authenticated, panel, page, selected_id, ops>>

\* not reference_no.strip()
reference_missing_never(reference_no) == FALSE

reference_missing(reference_no) == strip(reference_no) = <<>>

\* the add form's submit handler
AddSubmit(s) ==
    /\ pc[s] = "body" /\ event[s].kind = "submit"
    /\ IF reference_missing(event[s].ref)
       THEN /\ GoOn(s, "Reference Number is required")
            /\ UNCHANGED <<dbVars, ops>>
       ELSE /\ store' = insert_row(store, nextId, event[s].name, event[s].ref,
                                   event[s].dates[1], event[s].dates[2], event[s].dates[3])
            /\ nextId' = nextId + 1
            /\ ops' = [ops EXCEPT !.ins = @ + 1]
            /\ Rerun(s)
            /\ UNCHANGED page
    /\ UNCHANGED <<appVars, admin_authenticated, admin_login_open, panel,
                   selected_id, lastAuth>>

\* no handler above takes the event: the pass goes on to load_df
NoHandler(s) ==
    /\ pc[s] = "body" /\ event[s].kind \in {"none", "delete"}
    /\ GoOn(s, "none")
    /\ UNCHANGED <<appVars, dbVars, admin_authenticated, admin_login_open, panel,
                   selected_id, lastAuth, ops>>

Range(f) == {f[j] : j \in 1..Len(f)}

\* st.selectbox(labels, key="delete_select"): the label it returns.  With the option
\* list as it was shown, the label the admin chose.  With a changed list the widget
\* falls back to its first option, or (where the chosen label is still listed) keeps
\* the choice, depending on the Streamlit release.
selectbox(labels, shown, chosen) ==
    IF labels = shown /\ chosen \in Range(labels) THEN {chosen}
    ELSE {labels[1]} \cup ({chosen} \cap Range(labels))

\* load_df, save_to_csv, the statistics bar, the table and the admin panel;
\* csv_outcomes: whether df.to_csv can succeed (TRUE) and can raise (FALSE)
RenderWith(s, csv_outcomes) ==
    /\ pc[s] = "load"
    /\ \E csv_ok \in csv_outcomes :
          \E frame \in {load_df(store, ties)} :
          \E options \in {appointment_options(frame)} :
              IF Len(frame) = 0
              THEN \* st.info("No appointments yet.")
                   /\ page' = [page EXCEPT ![s].csv = "skipped"]
                   /\ panel' = [panel EXCEPT ![s] = <<>>]
                   /\ pc' = [pc EXCEPT ![s] = "idle"]
                   /\ UNCHANGED selected_id
              ELSE IF ~csv_ok
              THEN \* df.to_csv raises: nothing catches it, the pass stops here
                   /\ page' = [page EXCEPT ![s].csv = "failed"]
                   /\ panel' = [panel EXCEPT ![s] = <<>>]
                   /\ pc' = [pc EXCEPT ![s] = "idle"]
                   /\ UNCHANGED selected_id
              ELSE /\ page' = [page EXCEPT ![s].csv = "ok", ![s].stats = TRUE,
                                           ![s].table = TRUE]
                   /\ IF ~admin_authenticated[s]
                      THEN /\ panel' = [panel EXCEPT ![s] = <<>>]
                           /\ pc' = [pc EXCEPT ![s] = "idle"]
                           /\ UNCHANGED selected_id
                      ELSE /\ panel' = [panel EXCEPT ![s] = options]
                           /\ IF event[s].kind = "delete"
                              THEN \E selected_option \in
                                       selectbox(Labels(options), Labels(panel[s]),
                                                 event[s].label) :
                                      /\ selected_id' = [selected_id EXCEPT ![s] =
                                             LookupId(options, selected_option)]
                                      /\ pc' = [pc EXCEPT ![s] =
                                             IF LookupId(options, selected_option) # None
                                             THEN "delete" ELSE "idle"]
                              ELSE /\ pc' = [pc EXCEPT ![s] = "idle"]
                                   /\ UNCHANGED selected_id
    /\ event' = [event EXCEPT ![s] = IF pc'[s] = "delete" THEN event[s] ELSE NoEvent]
    /\ UNCHANGED <<appVars, dbVars, admin_authenticated, admin_login_open, lastAuth, ops>>

Render(s) == RenderWith(s, BOOLEAN)

\* the same pass on a machine where the backup file is always writable
RenderSaved(s) == RenderWith(s, {TRUE})

\* confirm and the delete button: delete_row(conn, selected_id), then st.rerun()
Delete(s) ==
    /\ pc[s] = "delete"
    /\ store' = delete_row(store, selected_id[s][1])
    /\ ops' = [ops EXCEPT !.del = @ + 1]
    /\ selected_id' = [selected_id EXCEPT ![s] = None]
    /\ Rerun(s)
    /\ UNCHANGED <<appVars, nextId, admin_authenticated, admin_login_open, panel,
                   page, lastAuth>>

\* Spec: one session using every widget
Next ==
    \E s \in {"s1"} :
        \/ Click(s)
        \/ SeedCountStep(s)
        \/ SeedInsertStep(s)
        \/ AdminToggle(s)
        \/ Logout(s)
        \/ Login(s)
        \/ Cancel(s)
        \/ AddSubmit(s)
        \/ NoHandler(s)
        \/ Render(s)
        \/ Delete(s)

Spec == Init /\ [][Next]_vars

\* SpecAdmins: two sessions side by side, each an admin who logs in and deletes,
\* on the table earlier sessions left behind
InitAdmins == Init /\ store = remnant

NextAdmins ==
    \E s \in Sessions :
        \/ AdminClick(s)
        \/ SeedCountStep(s)
        \/ SeedInsertStep(s)
        \/ AdminToggle(s)
        \/ Login(s)
        \/ NoHandler(s)
        \/ RenderSaved(s)
        \/ Delete(s)

SpecAdmins == InitAdmins /\ [][NextAdmins]_vars

-----------------------------------------------------------------------------
(* Calendar stepping used to state the claims: one day and one month at a time *)

NextDayOf(d) ==
    IF d[3] < DaysInMonth(d[1], d[2]) THEN <<d[1], d[2], d[3] + 1>>
    ELSE IF d[2] < 12 THEN <<d[1], d[2] + 1, 1>>
    ELSE <<d[1] + 1, 1, 1>>

RECURSIVE AdvanceDays(_, _)
AdvanceDays(d, k) == IF k = 0 THEN d ELSE AdvanceDays(NextDayOf(d), k - 1)

RECURSIVE MonthAfter(_, _)
MonthAfter(ym, k) ==
    IF k = 0 THEN ym
    ELSE MonthAfter(IF ym[2] < 12 THEN <<ym[1], ym[2] + 1>> ELSE <<ym[1] + 1, 1>>, k - 1)

\* whole years first, then the months left, one at a time
AdvanceMonths(d, k) ==
    LET ym == MonthAfter(<<d[1] + (k \div 12), d[2]>>, k % 12)
        last == IF ym[2] = 2 THEN (IF IsLeap(ym[1]) THEN 29 ELSE 28)
                ELSE IF ym[2] \in {4, 6, 9, 11} THEN 30 ELSE 31
    IN  <<ym[1], ym[2], IF d[3] > last THEN last ELSE d[3]>>

\* a is strictly earlier than b, by year, then month, then day
Earlier(a, b) ==
    \/ a[1] < b[1]
    \/ a[1] = b[1] /\ a[2] < b[2]
    \/ a[1] = b[1] /\ a[2] = b[2] /\ a[3] < b[3]

-----------------------------------------------------------------------------
(* Claims about calculate_wait_time (SpecWait) *)

\* C1: for present dates with start < end, calculate_wait_time returns (m, d) with
\* m >= 0 and d >= 0 such that start advanced by m calendar months (day clipped to
\* the target month's length) and then by d days is exactly end.
C1_Reconstruction ==
    (wOut # Pending /\ wStart # None /\ wEnd # None /\ Earlier(wStart, wEnd)) =>
        /\ wOut[1] # None /\ wOut[2] # None
        /\ wOut[1][1] >= 0 /\ wOut[2][1] >= 0
        /\ AdvanceDays(AdvanceMonths(wStart, wOut[1][1]), wOut[2][1]) = wEnd

\* C1 witness: from 31 January of a leap year to 29 February: one month (clipped), no days
C1_Witness ==
    /\ wStart = <<2024, 1, 31>> /\ wEnd = <<2024, 2, 29>>
    /\ wOut = <<Some(1), Some(0)>>

\* C2: for present dates with start >= end (equal dates included) the result is
\* exactly (0, 0): no negative count, no absent value.
C2_Clamp ==
    (wOut # Pending /\ wStart # None /\ wEnd # None /\ ~Earlier(wStart, wEnd)) =>
        wOut = <<Some(0), Some(0)>>

\* C2 witness: a start strictly after the end, clamped to (0, 0)
C2_Witness ==
    /\ wStart # None /\ wEnd # None
    /\ Earlier(wEnd, wStart)
    /\ wOut = <<Some(0), Some(0)>>

-----------------------------------------------------------------------------
(* Claim about mask_name (SpecMask) *)

\* C6: on the trimmed name: absent, empty or blank gives the dash; length <= 2 gives
\* first char + "*"; length 3-4 gives first char + "**" + last char; longer gives the
\* first two chars + "***" + the last two.  So a name longer than 4 masks to 7
\* characters, and a character found only strictly between the kept prefix and
\* suffix does not appear in the output.
C6_MaskThresholds ==
    (mOut # Pending) =>
        LET blank == mName = NullText \/ \A j \in 1..Len(mName) : mName[j] = " "
            t == strip(mName)
            k == Len(t)
        IN  IF blank THEN mOut = Dash
            ELSE IF k <= 2 THEN mOut = <<t[1], "*">>
            ELSE IF k <= 4 THEN mOut = <<t[1], "*", "*", t[k]>>
            ELSE /\ mOut = <<t[1], t[2], "*", "*", "*", t[k - 1], t[k]>>
                 /\ Len(mOut) = 7
                 /\ \A j \in 3..(k - 2) :
                       t[j] \notin {t[1], t[2], t[k - 1], t[k], "*"} =>
                           \A q \in 1..Len(mOut) : mOut[q] # t[j]

\* C6 witness: a padded six-character text whose trimmed form "abcab" masks to "ab***ab"
C6_Witness ==
    /\ mName = <<" ", "a", "b", "c", "a", "b">>
    /\ mOut = <<"a", "b", "*", "*", "*", "a", "b">>

-----------------------------------------------------------------------------
(* Claims about load_df (SpecStore) *)

\* the stored date texts of legacy that name no calendar day
MalformedTexts ==
    {<<"2", "0", "2", "3", "-", "0", "2", "-", "3", "0">>,
     <<"1", "3", "/", "0", "1", "/", "2", "0", "2", "6">>}

UnreadableDate(t) == t = <<>> \/ t = NullText \/ t \in MalformedTexts

FrameRowsOf(frame, id) == {j \in 1..Len(frame) : frame[j].id = id}

\* C3: a stored record whose apply_date or interview_date is empty, null or malformed
\* is still returned by load_df, that field parsed as absent and both wait_months and
\* wait_days absent.
C3_AbsencePropagation ==
    (df # None) =>
        \A i \in 1..Len(store) :
            (UnreadableDate(store[i].apply_date) \/ UnreadableDate(store[i].interview_date)) =>
                /\ Cardinality(FrameRowsOf(df[1], store[i].id)) = 1
                /\ \A j \in FrameRowsOf(df[1], store[i].id) :
                      /\ UnreadableDate(store[i].apply_date) => df[1][j].apply_date = None
                      /\ UnreadableDate(store[i].interview_date) =>
                             df[1][j].interview_date = None
                      /\ df[1][j].wait_months = None
                      /\ df[1][j].wait_days = None

\* C3 witness: a frame loaded from a table holding a malformed apply_date, a null
\* interview_date and a fully dated record whose wait is a number
C3_Witness ==
    /\ df # None
    /\ \E i \in 1..Len(store) : store[i].apply_date \in MalformedTexts
    /\ \E i \in 1..Len(store) : store[i].interview_date = NullText
    /\ \E j \in 1..Len(df[1]) : df[1][j].wait_months = Some(1) /\ df[1][j].wait_days = Some(0)

\* the sort value the claim gives a reference: its integer value, 0 when it is null,
\* empty, blank or not a number
SortValue(ref) ==
    IF ref = NullText \/ (\A j \in 1..Len(ref) : ref[j] = " ") THEN 0
    ELSE IF IntOk(ref) THEN IntOf(ref) ELSE 0

\* C4: after any inserts and deletes load_df returns every stored record exactly
\* once, in non-increasing order of the integer value of reference_no, a null, empty,
\* blank or non-numeric reference counting as 0.
C4_SortedByReference ==
    (df # None) =>
        /\ Len(df[1]) = Len(store)
        /\ \A i \in 1..Len(store) : Cardinality(FrameRowsOf(df[1], store[i].id)) = 1
        /\ \A j \in 1..Len(df[1]) :
              \E i \in 1..Len(store) :
                  store[i].id = df[1][j].id /\ store[i].reference_no = df[1][j].reference_no
        /\ \A j \in 1..(Len(df[1]) - 1) :
              SortValue(df[1][j].reference_no) >= SortValue(df[1][j + 1].reference_no)

\* C4 witness: after an insert and a delete, a frame in which a positive reference
\* comes before a non-numeric one, which comes before a negative one
C4_Witness ==
    /\ df # None /\ ops.ins > 0 /\ ops.del > 0
    /\ \E a, b, c \in 1..Len(df[1]) :
          /\ a < b /\ b < c
          /\ SortValue(df[1][a].reference_no) > 0
          /\ df[1][b].reference_no = <<"a", "b", "c">>
          /\ SortValue(df[1][c].reference_no) < 0

-----------------------------------------------------------------------------
(* Claims about the page run (Spec, SpecAdmins) *)

Blank(t) == \A j \in 1..Len(t) : t[j] = " "

\* out is raw without its leading and trailing blanks
TrimOf(raw, out) ==
    /\ out = <<>> \/ (out[1] # " " /\ out[Len(out)] # " ")
    /\ \E a \in 0..Len(raw) :
          /\ a + Len(out) <= Len(raw)
          /\ \A j \in 1..a : raw[j] = " "
          /\ \A j \in 1..Len(out) : raw[a + j] = out[j]
          /\ \A j \in (a + Len(out) + 1)..Len(raw) : raw[j] = " "

\* session s's pass leaves the position at
Leaves(s, at) == pc[s] = at /\ pc'[s] # at

\* C5: submitting the add form with an empty or blank reference number is rejected
\* with an error message and leaves the stored records unchanged; with any other
\* reference number it adds exactly one record with a fresh id, name and
\* reference_no stored trimmed, and changes no existing record.
C5_AddForm ==
    [][\A s \in Sessions :
          (Leaves(s, "body") /\ event[s].kind = "submit") =>
              IF Blank(event[s].ref)
              THEN /\ store' = store
                   /\ page'[s].error = "Reference Number is required"
              ELSE /\ Len(store') = Len(store) + 1
                   /\ SubSeq(store', 1, Len(store)) = store
                   /\ store'[Len(store')].id \notin Ids(store)
                   /\ store'[Len(store')].id >= nextId
                   /\ TrimOf(event[s].name, store'[Len(store')].name)
                   /\ TrimOf(event[s].ref, store'[Len(store')].reference_no)]_vars

\* C5 witness: a blank submission has just been rejected on the page, and the table
\* holds a record added from the padded inputs " Ali " and " 7"
C5_Witness ==
    /\ page["s1"].error = "Reference Number is required"
    /\ \E i \in 1..Len(store) :
          /\ store[i].name = <<"A", "l", "i">>
          /\ store[i].reference_no = <<"7">>
          /\ store[i].id > SeedCount

\* C8: a failure of the CSV backup write during a pass is swallowed: the pass still
\* renders the statistics bar and the table, and the stored records are unchanged.
C8_BackupFailureSwallowed ==
    [][\A s \in Sessions :
          (Leaves(s, "load") /\ page'[s].csv = "failed") =>
              /\ page'[s].stats /\ page'[s].table
              /\ store' = store]_vars

\* C9: delete_row is invoked only while admin_authenticated is true;
\* admin_authenticated is true only if the latest Login / Cancel / Logout click of
\* the session was a Login with the password ADMIN_PASSWORD; admin_authenticated and
\* admin_login_open are never both true.
C9_AdminGate ==
    \A s \in Sessions :
        /\ pc[s] = "delete" => admin_authenticated[s]
        /\ admin_authenticated[s] =>
               lastAuth[s] = [kind |-> "login", pw |-> "NoEm1234"]
        /\ ~(admin_authenticated[s] /\ admin_login_open[s])

\* C9 witness: an authenticated session about to call delete_row
C9_Witness == pc["s1"] = "delete" /\ admin_authenticated["s1"]

\* C10: a confirmed deletion removes exactly one record, the one whose entry the
\* admin selected in the dropdown, whatever the table holds (entries with equal
\* labels included), and leaves every other record unchanged.
C10_DeletesSelected ==
    [][\A s \in Sessions :
          Leaves(s, "delete") =>
              /\ event[s].target[1] \in Ids(store)
              /\ store' = SelectSeq(store, LAMBDA r : r.id # event[s].target[1])]_vars

\* C7: delete_row with an id that is not in the table changes nothing; and when two
\* admin sessions have the same record on their page and both confirm its deletion,
\* the second deletion removes nothing else.
C7_StaleDeleteIsNoOp ==
    [][\A s \in Sessions :
          Leaves(s, "delete") =>
              /\ selected_id[s][1] \notin Ids(store) => store' = store
              /\ event[s].target[1] \notin Ids(store) => store' = store]_vars

\* the rows are the sixteen seed records, in the seed's order, under ids that are
\* pairwise different and were never handed out before
SeededFresh(rows, used_below) ==
    /\ Len(rows) = 16
    /\ \A i \in 1..16 :
          /\ rows[i].name = seed[i].name
          /\ rows[i].reference_no = seed[i].reference_no
          /\ rows[i].apply_date = seed[i].apply_date
          /\ rows[i].received_date = seed[i].received_date
          /\ rows[i].interview_date = seed[i].interview_date
          /\ rows[i].id >= used_below
    /\ \A i, j \in 1..16 : i # j => rows[i].id # rows[j].id

\* C11: with a single session, every pass that reaches load_df finds a non-empty
\* table, so the "No appointments yet" branch is never taken; seed_if_empty, run at
\* the start of every pass, inserts the 16 seed records under fresh ids when the
\* table is empty and nothing otherwise, so the pass after the deletion of the last
\* record refills the table with the 16 seed records, and seeding never adds rows
\* to a non-empty table.
C11_SeedKeepsStoreNonEmpty ==
    [][\A s \in {"s1"} :
          /\ Leaves(s, "start") =>
                /\ store' = store
                /\ pc'[s] = (IF store = <<>> THEN "seed" ELSE "body")
          /\ Leaves(s, "seed") =>
                /\ store = <<>>
                /\ SeededFresh(store', nextId)
          /\ Leaves(s, "load") =>
                /\ store # <<>>
                /\ page'[s].csv # "skipped"]_vars

\* C11 witness: the admin has deleted the two records the table was left with, and
\* the pass after the second deletion has shown a table refilled with sixteen
\* records, all under ids newer than any the earlier table held
C11_Witness ==
    /\ ops.del = 2 /\ ops.ins = 0
    /\ pc["s1"] = "idle" /\ page["s1"].table
    /\ Len(store) = 16
    /\ \A i \in 1..Len(store) : store[i].id > SeedCount

====
